---- MODULE Spec2Model ----
(***************************************************************************)
(* Model of lib/Dialects/LinalgTransform/IR/LinalgTransformOps.cpp:        *)
(*   - verifySequenceOp, the verifier of transform::SequenceOp, which      *)
(*     walks the operation and rejects any op result with more than one    *)
(*     use;                                                                *)
(*   - transform::ScopeOp::getSuccessorRegions, the region-successor hook  *)
(*     of the scope operation.                                             *)
(*                                                                         *)
(* The IR is a finite set of operations 0 .. NumOps-1.  Operation 0 is the *)
(* sequence op handed to the verifier.  Every other operation is either    *)
(* nested (directly or transitively) in a region of operation 0, or lives  *)
(* elsewhere in the program (parent = None).  An operation owns an operand *)
(* list; every operand refers to a result <<producer, resultNumber>>.  The *)
(* use list of a result is the back-reference of that relation.            *)
(***************************************************************************)
EXTENDS Integers, Sequences, FiniteSets, TLC

\* Bounds of the model.
NumOps      == 3    \* operations in the program, the sequence op included
MaxResults  == 2    \* results per operation
MaxOperands == 2    \* operands per operation
MaxValues   == 3    \* results in the whole program
MaxUses     == 4    \* operands in the whole program
MaxRegions  == 2    \* regions per operation
MaxRuns     == 2    \* runs of the verifier on the same IR
MaxIndex    == 1    \* largest region index handed to getSuccessorRegions
MaxQueries  == 4    \* calls of getSuccessorRegions on one vector

None == 0 - 1
Root == 0

Ops == 0 .. (NumOps - 1)

VARIABLES
  parent,       \* parent[o]: the op whose region holds o, None at top level
  region,       \* region[o]: index of the region of parent[o] that holds o
  numResults,   \* numResults[o]: number of results of o
  operands,     \* operands[o]: sequence of the values o consumes
  pc,           \* "idle" or "walking": position of verifySequenceOp
  todo,         \* ops the walk has still to hand to the callback, in order
  visited,      \* ops the callback has been invoked on in the current run
  diags,        \* diagnostics emitted in the current run
  interrupted,  \* the walk got WalkResult::interrupt()
  runs,         \* one record per finished run of the verifier
  indices,      \* the index argument of each getSuccessorRegions call
  regions       \* the SmallVector getSuccessorRegions appends to

irVars    == <<parent, region, numResults, operands>>
walkVars  == <<pc, todo, visited, diags, interrupted, runs>>
scopeVars == <<indices, regions>>
vars      == <<parent, region, numResults, operands, pc, todo, visited, diags,
               interrupted, runs, indices, regions>>

----------------------------------------------------------------------------
\* The IR accessors the verifier reads.

\* child->getResults(): the results of an op, in result-number order.
getResults(child) == [i \in 1 .. numResults[child] |-> <<child, i - 1>>]

\* Every operand slot <<owner, operandNumber>> of ops 0 .. o.  A use list
\* links a new operand at its head, so it is iterated most recent first; no
\* property below depends on that order.
RECURSIVE OperandSlots(_)
OperandSlots(o) ==
  IF o < 0 THEN <<>>
  ELSE [i \in 1 .. Len(operands[o]) |-> <<o, Len(operands[o]) - i>>]
         \o OperandSlots(o - 1)

IsUseOf(slot, result) == operands[slot[1]][slot[2] + 1] = result

\* o is the sequence op or nested, at any depth, in one of its regions.
RECURSIVE IsNested(_)
IsNested(o) ==
  IF o = Root THEN TRUE
  ELSE IF parent[o] = None THEN FALSE
  ELSE IsNested(parent[o])

\* Faulty variant of getUses: only the uses owned by ops of the walked subtree.
getUsesInSequence(result) ==
  LET slots == SelectSeq(OperandSlots(NumOps - 1),
                         LAMBDA s : IsUseOf(s, result) /\ IsNested(s[1]))
  IN [i \in 1 .. Len(slots) |->
        [owner |-> slots[i][1], operandNumber |-> slots[i][2]]]

\* Faulty variant of getUses: one entry per consuming op (users, not uses).
getUsers(result) ==
  LET slots == SelectSeq(OperandSlots(NumOps - 1),
                         LAMBDA s : /\ IsUseOf(s, result)
                                    /\ \A k \in (s[2] + 1) .. (Len(operands[s[1]]) - 1) :
                                         ~IsUseOf(<<s[1], k>>, result))
  IN [i \in 1 .. Len(slots) |->
        [owner |-> slots[i][1], operandNumber |-> slots[i][2]]]

\* result.getUses(): every operand in the program that refers to the result.
getUses(result) ==
  LET slots == SelectSeq(OperandSlots(NumOps - 1), LAMBDA s : IsUseOf(s, result))
  IN [i \in 1 .. Len(slots) |->
        [owner |-> slots[i][1], operandNumber |-> slots[i][2]]]

\* Faulty variants of hasNItemsOrLess: an off-by-one in either direction.
hasLessThanNItems(range, n) == Len(range) < n
hasNPlusOneItemsOrLess(range, n) == Len(range) <= n + 1

\* llvm::hasNItemsOrLess(range, n).
hasNItemsOrLess(range, n) == Len(range) <= n

----------------------------------------------------------------------------
\* The diagnostic of one offending result.

Note(use) ==
  [loc |-> use.owner, text |-> "used here as operand #", number |-> use.operandNumber]

\* Faulty variant of EmitError: the notes point at the producer.
EmitErrorNotesAtProducer(child, result) ==
  LET uses == getUses(result)
  IN [loc    |-> child,
      text   |-> "result # has more than one use",
      number |-> result[2],
      notes  |-> [i \in 1 .. Len(uses) |-> [Note(uses[i]) EXCEPT !.loc = child]]]

\* child->emitError() << "result #" << N << " has more than one use", with one
\* note per use attached at the owner of the use.
EmitError(child, result) ==
  LET uses == getUses(result)
  IN [loc    |-> child,
      text   |-> "result # has more than one use",
      number |-> result[2],
      notes  |-> [i \in 1 .. Len(uses) |-> Note(uses[i])]]

\* The loop over child->getResults(), from the i-th result on.
RECURSIVE CheckResults(_, _)
CheckResults(child, i) ==
  IF i > Len(getResults(child))
    THEN [emitted |-> <<>>, result |-> "advance"]
  ELSE IF hasNItemsOrLess(getUses(getResults(child)[i]), 1)
    THEN CheckResults(child, i + 1)
  ELSE [emitted |-> <<EmitError(child, getResults(child)[i])>>,
        result  |-> "interrupt"]

\* Faulty variant of Callback: the walk goes on after a diagnostic.
CallbackAdvancing(child) ==
  [CheckResults(child, 1) EXCEPT !.result = "advance"]

\* The lambda handed to op.walk.
Callback(child) == CheckResults(child, 1)

----------------------------------------------------------------------------
\* The walk.

\* The ops of region r of op, in block order.
RECURSIVE RegionOps(_, _, _)
RegionOps(op, r, from) ==
  IF from > NumOps - 1 THEN <<>>
  ELSE (IF parent[from] = op /\ region[from] = r THEN <<from>> ELSE <<>>)
         \o RegionOps(op, r, from + 1)

\* Faulty variant of WalkOrder: the callback runs on an op before its regions.
RECURSIVE PreOrder(_), PreOrderRegions(_, _)
PreOrder(op) == <<op>> \o PreOrderRegions(op, 0)

PreOrderRegions(op, r) ==
  IF r > MaxRegions - 1 THEN <<>>
  ELSE LET RECURSIVE Nested(_)
           Nested(ops) == IF ops = <<>> THEN <<>>
                          ELSE PreOrder(Head(ops)) \o Nested(Tail(ops))
       IN Nested(RegionOps(op, r, 0)) \o PreOrderRegions(op, r + 1)

\* op.walk(callback).  The call names no order, and mlir::Operation::walk is
\* declared with WalkOrder Order = WalkOrder::PostOrder: the walk recurses
\* into every region of the op, every op of the region (blocks in order, ops
\* in block order), and invokes the callback on the op itself last.
RECURSIVE WalkOrder(_), WalkRegions(_, _)
WalkOrder(op) == WalkRegions(op, 0) \o <<op>>

WalkRegions(op, r) ==
  IF r > MaxRegions - 1 THEN <<>>
  ELSE LET RECURSIVE Nested(_)
           Nested(ops) == IF ops = <<>> THEN <<>>
                          ELSE WalkOrder(Head(ops)) \o Nested(Tail(ops))
       IN Nested(RegionOps(op, r, 0)) \o WalkRegions(op, r + 1)

\* failure(isFailure).
failure(isFailure) == IF isFailure THEN "failure" ELSE "success"

\* verifySequenceOp is entered: the walk starts at the sequence op.
BeginVerify ==
  /\ pc = "idle"
  /\ Len(runs) < MaxRuns
  /\ pc' = "walking"
  /\ todo' = WalkOrder(Root)
  /\ visited' = <<>>
  /\ diags' = <<>>
  /\ interrupted' = FALSE
  /\ UNCHANGED <<runs, irVars, scopeVars>>

\* Faulty variant of VisitNext: reporting a result drops its uses.
VisitNextDroppingUses ==
  /\ pc = "walking"
  /\ ~interrupted
  /\ todo # <<>>
  /\ LET child == Head(todo)
         r     == Callback(child)
     IN /\ visited' = Append(visited, child)
        /\ todo' = Tail(todo)
        /\ diags' = diags \o r.emitted
        /\ interrupted' = (r.result = "interrupt")
        /\ operands' =
             IF r.emitted = <<>> THEN operands
             ELSE [o \in Ops |->
                     SelectSeq(operands[o],
                               LAMBDA v : v # <<child, r.emitted[1].number>>)]
  /\ UNCHANGED <<pc, runs, parent, region, numResults, scopeVars>>

\* The walk hands the next op to the callback.
VisitNext ==
  /\ pc = "walking"
  /\ ~interrupted
  /\ todo # <<>>
  /\ LET child == Head(todo)
         r     == Callback(child)
     IN /\ visited' = Append(visited, child)
        /\ todo' = Tail(todo)
        /\ diags' = diags \o r.emitted
        /\ interrupted' = (r.result = "interrupt")
  /\ UNCHANGED <<pc, runs, irVars, scopeVars>>

\* The walk is over (exhausted or interrupted): return failure(wasInterrupted).
EndVerify ==
  /\ pc = "walking"
  /\ interrupted \/ todo = <<>>
  /\ runs' = Append(runs, [result  |-> failure(interrupted),
                           diags   |-> diags,
                           visited |-> visited])
  /\ pc' = "idle"
  /\ UNCHANGED <<todo, visited, diags, interrupted, irVars, scopeVars>>

----------------------------------------------------------------------------
\* transform::ScopeOp::getSuccessorRegions.

\* Optional<unsigned>: None or a region index.
OptionalIndex == {None} \cup (0 .. MaxIndex)

\* RegionSuccessor(&body()): the body region, which takes no inputs here.
BodySuccessor == [successor |-> "body", inputs |-> "arguments"]

\* RegionSuccessor(getResults()): the parent op, fed through the scope's results.
ParentSuccessor == [successor |-> "parent", inputs |-> "results"]

\* Faulty variant of hasValue: index 0 taken for "no index".
hasNonZeroValue(index) == index # None /\ index # 0

\* Faulty variant of hasValue: the test of the index is lost.
hasValueAlways(index) == TRUE

\* if (index): whether the Optional holds a value.
hasValue(index) == index # None

\* One call: exactly one successor is appended to the caller's vector.
getSuccessorRegions(index) ==
  /\ Len(indices) < MaxQueries
  /\ indices' = Append(indices, index)
  /\ regions' = IF hasValue(index)
                  THEN Append(regions, ParentSuccessor)
                  ELSE Append(regions, BodySuccessor)
  /\ UNCHANGED <<irVars, walkVars>>

----------------------------------------------------------------------------
\* Initial states and specifications.

RECURSIVE SumTo(_, _)
SumTo(f, o) == IF o < 0 THEN 0 ELSE f[o] + SumTo(f, o - 1)

\* Operand counts per op, at most MaxUses operands in all.
OperandCounts ==
  {n \in [Ops -> 0 .. MaxOperands] : SumTo(n, NumOps - 1) <= MaxUses}

\* Result counts per op, at most MaxValues results in all.
ResultCounts ==
  {n \in [Ops -> 0 .. MaxResults] : SumTo(n, NumOps - 1) <= MaxValues}

\* Parent links: op 0 is the sequence op; any other op is at top level or
\* nested in an op created before it.
Trees ==
  {p \in [Ops -> Ops \cup {None}] :
     /\ p[Root] = None
     /\ \A o \in Ops \ {Root} : p[o] = None \/ p[o] < o}

RegionIndices(p) ==
  {r \in [Ops -> 0 .. (MaxRegions - 1)] : \A o \in Ops : p[o] = None => r[o] = 0}

InitWalk ==
  /\ pc = "idle"
  /\ todo = <<>>
  /\ visited = <<>>
  /\ diags = <<>>
  /\ interrupted = FALSE
  /\ runs = <<>>

\* Any program within the bounds; the verifier has not run yet.
Init ==
  /\ numResults \in ResultCounts
  /\ \E n \in OperandCounts :
       \E f \in [{s \in Ops \X (0 .. (MaxOperands - 1)) : s[2] < n[s[1]]} ->
                   {v \in Ops \X (0 .. (MaxResults - 1)) : v[2] < numResults[v[1]]}] :
         operands = [o \in Ops |-> [k \in 1 .. n[o] |-> f[<<o, k - 1>>]]]
  /\ parent \in Trees
  /\ region \in RegionIndices(parent)
  /\ InitWalk
  /\ indices = <<>>
  /\ regions = <<>>

Next == BeginVerify \/ VisitNext \/ EndVerify

Spec == Init /\ [][Next]_vars

\* A scope op alone: the program holds no other operand or result.
ScopeInit ==
  /\ numResults = [o \in Ops |-> 0]
  /\ operands = [o \in Ops |-> <<>>]
  /\ parent = [o \in Ops |-> None]
  /\ region = [o \in Ops |-> 0]
  /\ InitWalk
  /\ indices = <<>>
  /\ regions = <<>>

ScopeNext == \E index \in OptionalIndex : getSuccessorRegions(index)

ScopeSpec == ScopeInit /\ [][ScopeNext]_vars

----------------------------------------------------------------------------
\* Vocabulary of the properties, defined on the operand lists alone.

SlotsOfProgram == {s \in Ops \X (0 .. (MaxOperands - 1)) : s[2] < Len(operands[s[1]])}

UsesOf(v) == {s \in SlotsOfProgram : operands[s[1]][s[2] + 1] = v}

UseCount(v) == Cardinality(UsesOf(v))

ResultsOf(o) == {<<o, i>> : i \in 0 .. (numResults[o] - 1)}

InSequence == {o \in Ops : IsNested(o)}

Offending(o) == \E v \in ResultsOf(o) : UseCount(v) >= 2

RECURSIVE IsAncestor(_, _)
IsAncestor(a, d) ==
  IF parent[d] = None THEN FALSE
  ELSE parent[d] = a \/ IsAncestor(a, parent[d])

Range(seq) == {seq[i] : i \in 1 .. Len(seq)}

Finished == Range(runs)

\* The value a diagnostic reports, and the operand slots its notes name.
Reported(d) == <<d.loc, d.number>>

NotedSlots(d) == {<<d.notes[i].loc, d.notes[i].number>> : i \in 1 .. Len(d.notes)}

----------------------------------------------------------------------------
\* C1: when every result of every op of the walked tree (the sequence op
\* included) has at most one use, the verifier emits no diagnostic at any
\* point of the walk and every finished run returns success.
C1_SingleUseSucceeds ==
  (\A o \in InSequence : ~Offending(o)) =>
     /\ diags = <<>>
     /\ ~interrupted
     /\ \A run \in Finished : run.result = "success" /\ run.diags = <<>>

\* A finished run on a tree where the sequence op and a nested op each have a
\* result with exactly one use.
C1_Witness ==
  /\ runs # <<>>
  /\ \A o \in InSequence : ~Offending(o)
  /\ \E v \in ResultsOf(Root) : UseCount(v) = 1
  /\ \E o \in InSequence \ {Root} : \E v \in ResultsOf(o) : UseCount(v) = 1

\* C2: when some result of an op of the walked tree has two or more uses,
\* every finished run returns failure with one diagnostic, whose notes are
\* as many as the uses of the result it reports.
C2_MultiUseFails ==
  (\E o \in InSequence : Offending(o)) =>
     \A run \in Finished :
        /\ run.result = "failure"
        /\ Len(run.diags) = 1
        /\ Len(run.diags[1].notes) = UseCount(Reported(run.diags[1]))
        /\ UseCount(Reported(run.diags[1])) >= 2

\* A finished run that reports a result with three uses.
C2_Witness ==
  /\ runs # <<>>
  /\ runs[1].result = "failure"
  /\ UseCount(Reported(runs[1].diags[1])) = 3
  /\ Len(runs[1].diags[1].notes) = 3

\* C3: the walk stops at the first offending result in traversal order: there
\* is never more than one diagnostic, the op it is located at is the last op
\* visited, no op visited before it offends, and no lower-numbered result of
\* that op offends.
C3_ShortCircuit ==
  LET StopsAtFirst(ds, vs, stopped) ==
        IF ds = <<>> THEN ~stopped /\ \A o \in Range(vs) : ~Offending(o)
        ELSE /\ Len(ds) = 1
             /\ stopped
             /\ vs # <<>>
             /\ vs[Len(vs)] = ds[1].loc
             /\ \A i \in 1 .. (Len(vs) - 1) : ~Offending(vs[i])
             /\ \A n \in 0 .. (ds[1].number - 1) : UseCount(<<ds[1].loc, n>>) <= 1
             /\ UseCount(Reported(ds[1])) >= 2
  IN /\ pc = "walking" => StopsAtFirst(diags, visited, interrupted)
     /\ \A run \in Finished :
          StopsAtFirst(run.diags, run.visited, run.result = "failure")

\* A finished run on a tree with two offending ops, one of which was never
\* visited.
C3_Witness ==
  /\ runs # <<>>
  /\ runs[1].result = "failure"
  /\ \E a, b \in InSequence :
       /\ a # b
       /\ Offending(a)
       /\ Offending(b)
       /\ runs[1].diags[1].loc = a
       /\ b \notin Range(runs[1].visited)

\* C4: a diagnostic is located at the producer and carries the number of the
\* offending result; its notes are located at the owners of the uses of that
\* result and carry their operand numbers, one note per use.  In particular,
\* for result 0 of A used as operand 0 of B and operand 1 of C, the notes
\* are operand #0 at B and operand #1 at C.
C4_DiagnosticContent ==
  \A run \in Finished : \A i \in 1 .. Len(run.diags) :
     LET d == run.diags[i]
     IN /\ d.loc \in InSequence
        /\ Reported(d) \in ResultsOf(d.loc)
        /\ d.text = "result # has more than one use"
        /\ NotedSlots(d) = UsesOf(Reported(d))
        /\ Len(d.notes) = Cardinality(NotedSlots(d))
        /\ \A k \in 1 .. Len(d.notes) : d.notes[k].text = "used here as operand #"

\* A finished run reporting result 0 of an op A whose uses are operand 0 of B
\* and operand 1 of C, with A, B and C distinct.
C4_Witness ==
  /\ runs # <<>>
  /\ runs[1].result = "failure"
  /\ LET d == runs[1].diags[1]
     IN \E b, c \in Ops :
          /\ Cardinality({d.loc, b, c}) = 3
          /\ d.number = 0
          /\ UsesOf(Reported(d)) = {<<b, 0>>, <<c, 1>>}
          /\ NotedSlots(d) = {<<b, 0>>, <<c, 1>>}
          /\ Len(d.notes) = 2

\* C5: a result of an op of the walked tree with one use inside the tree and
\* one use by an op outside it makes every finished run fail; when it is the
\* result reported, the diagnostic has two notes, one of them at the outside
\* op.
C5_UsesOutsideCount ==
  \A o \in InSequence : \A v \in ResultsOf(o) :
     (/\ UseCount(v) = 2
      /\ \E s \in UsesOf(v) : s[1] \in InSequence
      /\ \E s \in UsesOf(v) : s[1] \notin InSequence)
     => \A run \in Finished :
           /\ run.result = "failure"
           /\ Len(run.diags) = 1
           /\ Reported(run.diags[1]) = v =>
                /\ Len(run.diags[1].notes) = 2
                /\ \E k \in 1 .. 2 : run.diags[1].notes[k].loc \notin InSequence
                /\ \E k \in 1 .. 2 : run.diags[1].notes[k].loc \in InSequence

\* A finished run that reports the only offending result of the tree, used
\* once inside and once outside the tree.
C5_Witness ==
  /\ runs # <<>>
  /\ runs[1].result = "failure"
  /\ LET v == Reported(runs[1].diags[1])
     IN /\ UseCount(v) = 2
        /\ \E s \in UsesOf(v) : s[1] \in InSequence
        /\ \E s \in UsesOf(v) : s[1] \notin InSequence
        /\ \A o \in InSequence : \A w \in ResultsOf(o) : w # v => UseCount(w) <= 1

\* C6: no step of the verifier changes the ops, their nesting, their results
\* or their operands, and any two finished runs on the program have the same
\* result and the same diagnostics.
C6_NoMutation ==
  /\ [][UNCHANGED irVars]_vars
  /\ [](\A r1, r2 \in Finished : r1 = r2)

\* Two finished runs that both failed.
C6_Witness ==
  /\ Len(runs) = 2
  /\ runs[1].result = "failure"
  /\ runs[2].result = "failure"
  /\ runs[2].diags # <<>>

\* C7: a call without an index appends exactly one successor, the body region.
C7_EntryGoesToBody ==
  /\ Len(regions) = Len(indices)
  /\ \A i \in 1 .. Len(indices) :
       indices[i] = None => regions[i] = BodySuccessor

\* A call without an index has been made after a call with one.
C7_Witness ==
  /\ Len(indices) >= 2
  /\ indices[1] # None
  /\ indices[Len(indices)] = None
  /\ regions[Len(regions)].successor = "body"

\* C8: a call with an index, whatever its value, appends exactly one
\* successor, the parent op fed through the scope's results, never the body.
C8_IndexGoesToParent ==
  /\ Len(regions) = Len(indices)
  /\ \A i \in 1 .. Len(indices) :
       indices[i] # None =>
          /\ regions[i] = ParentSuccessor
          /\ regions[i].successor # "body"

\* Calls with index 0 and with index MaxIndex have been made.
C8_Witness ==
  /\ Len(indices) >= 2
  /\ 0 \in Range(indices)
  /\ MaxIndex \in Range(indices)
  /\ \A i \in 1 .. Len(regions) : indices[i] # None => regions[i].successor = "parent"

\* The walk only visits ops of the tree, each at most once, and a run that
\* finds no violation has visited every op of the tree.
ExhaustiveWalk ==
  LET Once(vs) ==
        /\ Range(vs) \subseteq InSequence
        /\ Cardinality(Range(vs)) = Len(vs)
  IN /\ Once(visited)
     /\ \A run \in Finished :
          /\ Once(run.visited)
          /\ run.result = "success" => Range(run.visited) = InSequence

\* C9 as stated: the walk is exhaustive and pre-order: an op is visited before
\* the ops nested in it, and when an op and one of its descendants both
\* offend, the diagnostic is located at the op.
C9_PreOrder ==
  /\ ExhaustiveWalk
  /\ \A i, j \in 1 .. Len(visited) : i < j => ~IsAncestor(visited[j], visited[i])
  /\ \A run \in Finished : \A k \in 1 .. Len(run.diags) :
       \A a \in InSequence : Offending(a) => ~IsAncestor(a, run.diags[k].loc)

\* The order of the walk: an op is visited after every op nested in it, and a
\* diagnostic is never located at an op that has an offending descendant.
PostOrderWalk ==
  /\ \A i, j \in 1 .. Len(visited) : i < j => ~IsAncestor(visited[i], visited[j])
  /\ \A run \in Finished : \A k \in 1 .. Len(run.diags) :
       \A d \in InSequence : Offending(d) => ~IsAncestor(run.diags[k].loc, d)

\* Termination of the walk: while the verifier is walking it can always take a
\* step, and every step that stays in the walk shortens the list of ops still
\* to visit, which is never longer than the tree.
WalkCanStep ==
  pc = "walking" =>
     /\ ENABLED (VisitNext \/ EndVerify)
     /\ Len(todo) + Len(visited) <= Cardinality(InSequence)

WalkDecreases ==
  (pc = "walking" /\ pc' = "walking") => Len(todo') < Len(todo)

\* C9, amended: the walk terminates, is exhaustive and is post-order: an op's
\* results are checked after those of the ops nested in its regions, so when
\* an op and one of its descendants both offend, the diagnostic is located at
\* the descendant.
C9_PostOrder ==
  /\ [](ExhaustiveWalk /\ PostOrderWalk /\ WalkCanStep)
  /\ [][WalkDecreases]_vars

\* A finished run on a tree where an op and an op nested in it both offend.
C9_Witness ==
  /\ runs # <<>>
  /\ runs[1].result = "failure"
  /\ \E a \in InSequence :
       /\ Offending(a)
       /\ IsAncestor(a, runs[1].diags[1].loc)

\* C10: a result consumed twice by one op and by nothing else makes every
\* finished run fail; when it is the result reported, the diagnostic has two
\* notes, both located at that op, naming its two operand numbers.
C10_UsesPerOperand ==
  \A o \in InSequence : \A v \in ResultsOf(o) :
     \A c \in Ops : \A i, j \in 0 .. (MaxOperands - 1) :
        (i # j /\ UsesOf(v) = {<<c, i>>, <<c, j>>})
        => \A run \in Finished :
              /\ run.result = "failure"
              /\ Len(run.diags) = 1
              /\ Reported(run.diags[1]) = v =>
                   /\ Len(run.diags[1].notes) = 2
                   /\ NotedSlots(run.diags[1]) = {<<c, i>>, <<c, j>>}

\* A finished run that reports the only offending result of the tree, both
\* of whose uses are operands of one op.
C10_Witness ==
  /\ runs # <<>>
  /\ runs[1].result = "failure"
  /\ LET d == runs[1].diags[1]
     IN /\ \E c \in Ops : UsesOf(Reported(d)) = {<<c, 0>>, <<c, 1>>}
        /\ Len(d.notes) = 2
        /\ d.notes[1].loc = d.notes[2].loc
        /\ d.notes[1].number # d.notes[2].number
        /\ \A o \in InSequence : \A w \in ResultsOf(o) :
             w # Reported(d) => UseCount(w) <= 1

====
